---- MODULE Spec2Model ----
(***************************************************************************)
(* SOCKS5 proxy server of crates/client/src/socks5.rs: the accept loop     *)
(* (Merino::serve), the per-connection handler (SOCKClient::init, auth,    *)
(* get_avalible_methods, handle_client), the request parser                *)
(* (SOCKSReq::from_stream), the address resolver (addr_to_socket) and the  *)
(* reply codec (SocksReply).                                               *)
(*                                                                         *)
(* One step of the model is one operation on a stream (a read_exact, a     *)
(* write_all, a shutdown), the DNS lookup, one outbound connect attempt or *)
(* the timeout of the connect.  The bytes a client sends are chosen when   *)
(* the handler reads them.  The client stream behaves as a TcpStream:      *)
(* shutdown() closes the write half only, so later reads still succeed and *)
(* later writes fail; once the peer has reset the connection every         *)
(* operation fails; read_exact fails once the peer has stopped sending.    *)
(***************************************************************************)
EXTENDS Integers, Sequences, FiniteSets, TLC

(* ------------------------------ bounds -------------------------------- *)
\* longest method list a greeting declares
MaxMethods == 3
\* longest username and longest password of a subnegotiation
MaxStr == 1
\* longest domain name of a request
MaxDomain == 1
\* most addresses a DNS lookup returns
MaxCand == 2
\* most bytes relayed on one connection, both directions together
MaxRelay == 2

(* ------------------------- program constants -------------------------- *)
SOCKS_VERSION == 5
RESERVED == 0
Success == 0
Failure == 1
RuleFailure == 2
NetworkUnreachable == 3
HostUnreachable == 4
ConnectionRefused == 5
TtlExpired == 6
CommandNotSupported == 7
AddrTypeNotSupported == 8
Timeout == 153
NoAuth == 0
UserPass == 2
NoMethods == 255
\* Unicode replacement character, what from_utf8_lossy puts for an invalid byte
REPLACEMENT == 65533

(* ------------------------------ helpers -------------------------------- *)
Contains(seq, x) == \E i \in DOMAIN seq : seq[i] = x

Range(seq) == {seq[i] : i \in DOMAIN seq}

\* the contents a buffer of n bytes may be filled with
SeqsOfLen(S, n) == [1..n -> S]

\* MerinoError::Io(io::Error of kind k) and MerinoError::Socks(code)
IoErr(k) == [kind |-> "Io", code |-> 0, io |-> k]
SocksErr(code) == [kind |-> "Socks", code |-> code, io |-> ""]
NoErr == [kind |-> "None", code |-> 0, io |-> ""]

\* ResponseCodeFrom with the Io arm giving the internal timeout code
ResponseCodeFromIoTimeout(e) == IF e.kind = "Socks" THEN e.code ELSE Timeout

\* impl From<MerinoError> for ResponseCode
ResponseCodeFrom(e) == IF e.kind = "Socks" THEN e.code ELSE Failure

\* SocksReply with the bound address of the outbound socket filled in
SocksReplyBoundAddr(status) ==
    <<SOCKS_VERSION, status, RESERVED, 1, 127, 0, 0, 1, 35, 40>>

\* SocksReply::new(status).buf
SocksReply(status) == <<SOCKS_VERSION, status, RESERVED, 1, 0, 0, 0, 0, 0, 0>>

\* SockCommand::from
SockCommandFrom(n) ==
    CASE n = 1 -> "Connect"
      [] n = 2 -> "Bind"
      [] n = 3 -> "UdpAssosiate"
      [] OTHER -> "None"

\* AddrType::from
AddrTypeFrom(n) ==
    CASE n = 1 -> "V4"
      [] n = 3 -> "Domain"
      [] n = 4 -> "V6"
      [] OTHER -> "None"

\* String::from_utf8_lossy on bytes that are ASCII or 0xFE/0xFF (never valid
\* in UTF-8): a string is the sequence of its code points
FromUtf8Lossy(bytes) ==
    [i \in DOMAIN bytes |-> IF bytes[i] < 128 THEN bytes[i] ELSE REPLACEMENT]

\* std::str::from_utf8 succeeds, on the same bytes
ValidUtf8(bytes) == \A i \in DOMAIN bytes : bytes[i] < 128

(* --------------------------- environment ------------------------------ *)
\* the connections a run may see; Init says which of them arrive
Conns == {"c1", "c2"}

\* what a server may be configured with
ServerMethods == {<<NoAuth>>, <<UserPass>>, <<NoAuth, UserPass>>}
ConfiguredUsers ==
    { [username |-> <<97>>, password |-> <<98>>],
      [username |-> <<REPLACEMENT>>, password |-> <<>>] }

\* the errors accept() may return: the connection was aborted while it was
\* queued (the listener stays usable), or the listener itself failed
AcceptErrors == {"ConnectionAborted", "ListenerFailed"}

\* what a client may send
Versions == {4, SOCKS_VERSION}
MethodBytes == {NoAuth, 1, UserPass}
NameBytes == {97, 98, 255}
CmdBytes == {1, 2, 3, 9}
AtypBytes == {1, 3, 4, 7}
V4Addrs == {<<127, 0, 0, 1>>, <<10, 0, 0, 2>>}
V6Addrs ==
    { <<0, 0, 0, 0, 0, 0, 0, 0, 0, 0, 0, 0, 0, 0, 0, 1>>,
      <<32, 1, 13, 184, 0, 0, 0, 0, 0, 0, 0, 0, 0, 0, 1, 2>> }
DomainBytes == {97, 255}
PortBytes == {<<35, 40>>, <<0, 80>>}
\* what the DNS resolver may answer with
ResolvedIps == {<<93, 184, 216, 34>>, <<10, 0, 0, 2>>}
\* what the two ends may send once the relay runs
RelayBytes == {1, 2}

VARIABLES
    listener,      \* "listening" | "stopped": Merino::serve's accept loop
    pending,       \* connections that have not arrived yet
    auth_methods,  \* Merino.auth_methods
    users,         \* Merino.users
    accepted,      \* what listener.accept() returned last: "none" | "Ok" | an error
    inputs,        \* per connection, what its client may send: "any" | "few" | "one"
    client         \* per connection: the SOCKClient, its streams, its task

vars == <<listener, pending, auth_methods, users, accepted, inputs, client>>

\* the values an input of connection c is drawn from: the whole set, a few
\* of its values, or the one value of a no-auth CONNECT to an IPv4 address
In(c, any, few, one) ==
    CASE inputs[c] = "any" -> any
      [] inputs[c] = "few" -> few
      [] OTHER -> one

(* A connection's record holds                                              *)
(*  - the task's position pc and the error init returned (error);          *)
(*  - SOCKClient's fields socks_version, auth_nmethods;                     *)
(*  - the locals of get_avalible_methods and auth: left (iterations to go), *)
(*    methods, user_len, username, pass_len, password;                      *)
(*  - the locals of from_stream and handle_client: packet, command,         *)
(*    addr_type, dlen, addr, port, sock_addr, idx (candidate being tried),  *)
(*    target, c2t and t2c (the two directions of copy_bidirectional);       *)
(*  - the client stream: peer ("open" | "eof" | "reset"), shut (our write   *)
(*    half is shut down), cout (the bytes written to the client);           *)
(*  - what has happened so far: offered (method bytes read), selected       *)
(*    (method written, -1 before), auth ("none" | "granted" | "denied"),    *)
(*    reqEntered (from_stream was entered), parsed (it returned a request), *)
(*    req_version, lastRead (stage of the last read that took bytes), dns   *)
(*    (lookups made), opened (target streams opened), timedOut, cin (bytes  *)
(*    the relay read from the client), tin (bytes                           *)
(*    written to the target), fromTarget (target bytes written to the       *)
(*    client), relayEnd (the I/O error copy_bidirectional returned, if      *)
(*    any), replies (codes of the reply frames written).                    *)
\* SOCKClient::new, with the state of the two streams and of the task
NewClient ==
    [ pc |-> "idle",
      socks_version |-> 0, auth_nmethods |-> 0,
      left |-> 0, methods |-> <<>>, offered |-> {}, selected |-> -1,
      user_len |-> 0, username |-> <<>>, pass_len |-> 0, password |-> <<>>,
      auth |-> "none",
      reqEntered |-> FALSE, parsed |-> FALSE, req_version |-> 0,
      packet |-> <<>>, command |-> "None", addr_type |-> "None",
      dlen |-> 0, addr |-> <<>>, port |-> 0,
      sock_addr |-> <<>>, idx |-> 0, dns |-> 0, opened |-> 0, timedOut |-> FALSE,
      target |-> "none", cin |-> <<>>, tin |-> <<>>, fromTarget |-> <<>>,
      c2t |-> "idle", t2c |-> "idle", relayEnd |-> "none",
      replies |-> <<>>,
      error |-> NoErr,
      peer |-> "open", shut |-> FALSE, cout |-> <<>>, lastRead |-> "none" ]

Init ==
    /\ listener = "listening"
    /\ pending = {"c1"}
    /\ auth_methods \in ServerMethods
    /\ users = ConfiguredUsers
    /\ accepted = "none"
    /\ inputs = [c \in Conns |-> "any"]
    /\ client = [c \in Conns |-> NewClient]

\* one connection arrives; its client sends from the narrow sets
InitFew ==
    /\ listener = "listening"
    /\ pending = {"c1"}
    /\ auth_methods = <<NoAuth, UserPass>>
    /\ users = ConfiguredUsers
    /\ accepted = "none"
    /\ inputs = [c \in Conns |-> "few"]
    /\ client = [c \in Conns |-> NewClient]

\* two connections arrive: the client of one sends from the narrow sets, the
\* client of the other sends a no-auth CONNECT; streams, resolver and targets
\* behave as they may
InitMany ==
    /\ listener = "listening"
    /\ pending = Conns
    /\ auth_methods = <<NoAuth, UserPass>>
    /\ users = ConfiguredUsers
    /\ accepted = "none"
    /\ inputs = [c \in Conns |-> IF c = "c1" THEN "few" ELSE "one"]
    /\ client = [c \in Conns |-> NewClient]

(* ------------------------- stream operations -------------------------- *)
\* read_exact of n bytes yields them: nothing to read, or the peer still sends
CanRead(s, n) == n = 0 \/ s.peer = "open"
\* write_all succeeds: the write half is open and the connection is not reset
CanWrite(s) == ~s.shut /\ s.peer # "reset"
\* shutdown succeeds
CanShutdown(s) == s.peer # "reset"

\* the stage of the last read that took bytes off the client stream, after a
\* read_exact of n bytes at stage st
ReadAt(s, n, st) == IF n = 0 THEN s.lastRead ELSE st

\* the parsed request and the candidates go out of use
DropRequest(s) ==
    [s EXCEPT !.packet = <<>>, !.addr_type = "None", !.dlen = 0, !.addr = <<>>,
              !.port = 0, !.sock_addr = <<>>, !.idx = 0]

\* the handler returns Err(e) to the task of Merino::serve; the locals of the
\* function that returned, the target stream among them, are dropped
Fail(s, e) ==
    [DropRequest(s) EXCEPT !.pc = "err", !.error = e,
                           !.target = IF @ = "open" THEN "closed" ELSE @]
Set(c, s) == client' = [client EXCEPT ![c] = s]
Keep == UNCHANGED <<listener, pending, auth_methods, users, accepted, inputs>>

(* ---------------------------- Merino::serve ---------------------------- *)
\* Accept with the handler awaited in the loop: no accept while one runs
AcceptInline(c) ==
    /\ listener = "listening"
    /\ c \in pending
    /\ \A d \in Conns : client[d].pc \in {"idle", "done"}
    /\ pending' = pending \ {c}
    /\ accepted' = "Ok"
    /\ Set(c, [NewClient EXCEPT !.pc = "init"])
    /\ UNCHANGED <<listener, auth_methods, users, inputs>>

\* listener.accept() returns a stream: spawn the handler task
Accept(c) ==
    /\ listener = "listening"
    /\ c \in pending
    /\ pending' = pending \ {c}
    /\ accepted' = "Ok"
    /\ Set(c, [NewClient EXCEPT !.pc = "init"])
    /\ UNCHANGED <<listener, auth_methods, users, inputs>>

\* listener.accept() returns Err: `while let Ok(..)` ends the loop
AcceptError(c) ==
    /\ listener = "listening"
    /\ c \in pending
    /\ pending' = pending \ {c}
    /\ \E e \in AcceptErrors : accepted' = e
    /\ listener' = "stopped"
    /\ UNCHANGED <<auth_methods, users, inputs, client>>

(* --------------------------- SOCKClient::init -------------------------- *)
\* InitReadHeader without the version test
InitReadHeaderAnyVersion(c) ==
    LET s == client[c] IN
    /\ s.pc = "init"
    /\ Keep
    /\ IF CanRead(s, 2)
       THEN \E v \in In(c, Versions, Versions, {SOCKS_VERSION}),
                 n \in In(c, 0..MaxMethods, {1}, {1}) :
              Set(c, [s EXCEPT !.socks_version = v, !.auth_nmethods = n,
                               !.left = n, !.lastRead = "greeting",
                               !.pc = "methods"])
       ELSE Set(c, Fail(s, IoErr("UnexpectedEof")))

\* read the 2-byte header [version, nmethods] and test the version
InitReadHeader(c) ==
    LET s == client[c] IN
    /\ s.pc = "init"
    /\ Keep
    /\ IF CanRead(s, 2)
       THEN \E v \in In(c, Versions, Versions, {SOCKS_VERSION}),
                 n \in In(c, 0..MaxMethods, {1}, {1}) :
              Set(c, [s EXCEPT !.socks_version = v, !.auth_nmethods = n,
                               !.left = n, !.lastRead = "greeting",
                               !.pc = IF v = SOCKS_VERSION THEN "methods"
                                      ELSE "init_shutdown"])
       ELSE Set(c, Fail(s, IoErr("UnexpectedEof")))

\* unsupported version: self.shutdown().await?; Ok(())
InitShutdown(c) ==
    LET s == client[c] IN
    /\ s.pc = "init_shutdown"
    /\ Keep
    /\ IF CanShutdown(s)
       THEN Set(c, [s EXCEPT !.shut = TRUE, !.pc = "done"])
       ELSE Set(c, Fail(s, IoErr("NotConnected")))

(* -------------------- SOCKClient::get_avalible_methods ----------------- *)
\* GetMethod keeping every offered method, configured or not
GetMethodUnfiltered(c) ==
    LET s == client[c] IN
    /\ s.pc = "methods"
    /\ s.left > 0
    /\ Keep
    /\ IF CanRead(s, 1)
       THEN \E m \in In(c, MethodBytes, MethodBytes, {NoAuth}) :
              Set(c, [s EXCEPT !.left = @ - 1, !.lastRead = "method",
                               !.offered = @ \cup {m},
                               !.methods = Append(@, m)])
       ELSE Set(c, Fail(s, IoErr("UnexpectedEof")))

\* one iteration of the loop: read a method byte, keep it if configured
GetMethod(c) ==
    LET s == client[c] IN
    /\ s.pc = "methods"
    /\ s.left > 0
    /\ Keep
    /\ IF CanRead(s, 1)
       THEN \E m \in In(c, MethodBytes, MethodBytes, {NoAuth}) :
              Set(c, [s EXCEPT !.left = @ - 1, !.lastRead = "method",
                               !.offered = @ \cup {m},
                               !.methods = IF Contains(auth_methods, m)
                                           THEN Append(@, m) ELSE @])
       ELSE Set(c, Fail(s, IoErr("UnexpectedEof")))

(* --------------------------- SOCKClient::auth -------------------------- *)
\* SelectMethod with the two preferences swapped
SelectMethodNoAuthFirst(methods) ==
    IF Contains(methods, NoAuth) THEN NoAuth
    ELSE IF Contains(methods, UserPass) THEN UserPass
    ELSE NoMethods

\* the method auth() answers with
SelectMethod(methods) ==
    IF Contains(methods, UserPass) THEN UserPass
    ELSE IF Contains(methods, NoAuth) THEN NoAuth
    ELSE NoMethods

\* write the method-selection reply [SOCKS_VERSION, method]
AuthSelect(c) ==
    LET s == client[c]
        m == SelectMethod(s.methods) IN
    /\ s.pc = "methods"
    /\ s.left = 0
    /\ Keep
    /\ IF CanWrite(s)
       THEN Set(c, [s EXCEPT !.cout = @ \o <<SOCKS_VERSION, m>>,
                             !.selected = m,
                             !.pc = CASE m = UserPass -> "up_hdr"
                                      [] m = NoAuth -> "req"
                                      [] OTHER -> "nometh_shutdown"])
       ELSE Set(c, Fail(s, IoErr("BrokenPipe")))

\* AuthNoMethodsShutdown returning Ok(()) after the shutdown
AuthNoMethodsShutdownOk(c) ==
    LET s == client[c] IN
    /\ s.pc = "nometh_shutdown"
    /\ Keep
    /\ IF CanShutdown(s)
       THEN Set(c, [s EXCEPT !.shut = TRUE, !.pc = "req"])
       ELSE Set(c, Fail(s, IoErr("NotConnected")))

\* no common method: self.shutdown().await?; Err(Socks(Failure))
AuthNoMethodsShutdown(c) ==
    LET s == client[c] IN
    /\ s.pc = "nometh_shutdown"
    /\ Keep
    /\ IF CanShutdown(s)
       THEN Set(c, Fail([s EXCEPT !.shut = TRUE], SocksErr(Failure)))
       ELSE Set(c, Fail(s, IoErr("NotConnected")))

\* subnegotiation header [ver, ulen]; ver is not looked at
AuthReadHeader(c) ==
    LET s == client[c] IN
    /\ s.pc = "up_hdr"
    /\ Keep
    /\ IF CanRead(s, 2)
       THEN \E ver \in In(c, {1, SOCKS_VERSION}, {1}, {1}),
                 ulen \in In(c, 0..MaxStr, {1}, {1}) :
              Set(c, [s EXCEPT !.user_len = ulen, !.lastRead = "auth",
                               !.pc = "up_user"])
       ELSE Set(c, Fail(s, IoErr("UnexpectedEof")))

AuthReadUsername(c) ==
    LET s == client[c] IN
    /\ s.pc = "up_user"
    /\ Keep
    /\ IF CanRead(s, s.user_len)
       THEN \E u \in SeqsOfLen(In(c, NameBytes, {97}, {97}), s.user_len) :
              Set(c, [s EXCEPT !.username = u, !.lastRead = ReadAt(s, s.user_len, "auth"),
                               !.pc = "up_plen"])
       ELSE Set(c, Fail(s, IoErr("UnexpectedEof")))

AuthReadPassLen(c) ==
    LET s == client[c] IN
    /\ s.pc = "up_plen"
    /\ Keep
    /\ IF CanRead(s, 1)
       THEN \E plen \in In(c, 0..MaxStr, {1}, {1}) :
              Set(c, [s EXCEPT !.pass_len = plen, !.lastRead = "auth",
                               !.pc = "up_pass"])
       ELSE Set(c, Fail(s, IoErr("UnexpectedEof")))

AuthReadPassword(c) ==
    LET s == client[c] IN
    /\ s.pc = "up_pass"
    /\ Keep
    /\ IF CanRead(s, s.pass_len)
       THEN \E p \in SeqsOfLen(In(c, NameBytes, {97, 98}, {98}), s.pass_len) :
              Set(c, [s EXCEPT !.password = p, !.lastRead = ReadAt(s, s.pass_len, "auth"),
                               !.pc = "up_verdict"])
       ELSE Set(c, Fail(s, IoErr("UnexpectedEof")))

\* authed comparing the usernames only
authedByName(user) == \E u \in users : u.username = user.username

\* SOCKClient::authed
authed(user) == user \in users

\* the User built from the submitted bytes
SubmittedUser(s) ==
    [username |-> FromUtf8Lossy(s.username), password |-> FromUtf8Lossy(s.password)]

\* write the subnegotiation status [1, status]
AuthVerdict(c) ==
    LET s == client[c]
        ok == authed(SubmittedUser(s)) IN
    /\ s.pc = "up_verdict"
    /\ Keep
    /\ IF CanWrite(s)
       THEN Set(c, [s EXCEPT !.cout = @ \o <<1, IF ok THEN Success ELSE Failure>>,
                             !.auth = IF ok THEN "granted" ELSE "denied",
                             !.pc = IF ok THEN "req" ELSE "up_shutdown"])
       ELSE Set(c, Fail(s, IoErr("BrokenPipe")))

\* access denied: self.shutdown().await?; then auth() returns Ok(())
AuthDeniedShutdown(c) ==
    LET s == client[c] IN
    /\ s.pc = "up_shutdown"
    /\ Keep
    /\ IF CanShutdown(s)
       THEN Set(c, [s EXCEPT !.shut = TRUE, !.pc = "req"])
       ELSE Set(c, Fail(s, IoErr("NotConnected")))

(* ------------------------- SOCKSReq::from_stream ----------------------- *)
\* where from_stream goes once the version byte is dealt with: the command,
\* then the address type, then the address
AfterVersion(packet) ==
    IF SockCommandFrom(packet[2]) = "None" THEN "req_badcmd"
    ELSE IF AddrTypeFrom(packet[4]) = "None" THEN "req_badatyp"
    ELSE IF AddrTypeFrom(packet[4]) = "Domain" THEN "req_dlen"
    ELSE "req_addr"

\* where from_stream goes once the 4-byte header [ver, cmd, rsv, atyp] is read
AfterHeader(packet) ==
    IF packet[1] # SOCKS_VERSION THEN "req_badver" ELSE AfterVersion(packet)

\* handle_client enters from_stream: the locals of auth() are gone; read the
\* 4-byte header
ReqReadHeader(c) ==
    LET s == [client[c] EXCEPT !.reqEntered = TRUE,
                               !.methods = <<>>,
                               !.user_len = 0, !.username = <<>>,
                               !.pass_len = 0, !.password = <<>>] IN
    /\ client[c].pc = "req"
    /\ Keep
    /\ IF CanRead(s, 4)
       THEN \E ver \in In(c, Versions, {SOCKS_VERSION}, {SOCKS_VERSION}),
                 cmd \in In(c, CmdBytes, {1, 2}, {1}),
                 atyp \in In(c, AtypBytes, {1, 3, 7}, {1}) :
              LET packet == <<ver, cmd, RESERVED, atyp>> IN
              Set(c, [s EXCEPT !.packet = packet, !.lastRead = "request",
                               !.req_version = ver,
                               !.command = SockCommandFrom(cmd),
                               !.addr_type = AddrTypeFrom(atyp),
                               !.pc = AfterHeader(packet)])
       ELSE Set(c, Fail(s, IoErr("UnexpectedEof")))

\* the three stream.shutdown().await? of from_stream: after a version other
\* than 5 the parse goes on; after an invalid command or address type it
\* returns the Socks error
ReqShutdown(c) ==
    LET s == client[c] IN
    /\ s.pc \in {"req_badver", "req_badcmd", "req_badatyp"}
    /\ Keep
    /\ IF CanShutdown(s)
       THEN LET d == [s EXCEPT !.shut = TRUE] IN
            CASE s.pc = "req_badver" ->
                   Set(c, [d EXCEPT !.pc = AfterVersion(s.packet)])
              [] s.pc = "req_badcmd" ->
                   Set(c, Fail(d, SocksErr(CommandNotSupported)))
              [] OTHER ->
                   Set(c, Fail(d, SocksErr(AddrTypeNotSupported)))
       ELSE Set(c, Fail(s, IoErr("NotConnected")))

\* AddrType::Domain: the length byte
ReqReadDomainLen(c) ==
    LET s == client[c] IN
    /\ s.pc = "req_dlen"
    /\ Keep
    /\ IF CanRead(s, 1)
       THEN \E n \in In(c, 0..MaxDomain, {1}, {1}) :
              Set(c, [s EXCEPT !.dlen = n, !.lastRead = "request", !.pc = "req_addr"])
       ELSE Set(c, Fail(s, IoErr("UnexpectedEof")))

\* how many bytes the address read asks for
AddrLen(s) ==
    CASE s.addr_type = "Domain" -> s.dlen
      [] s.addr_type = "V4" -> 4
      [] OTHER -> 16

\* the address bytes a client may send for the address type
AddrChoices(c) ==
    LET s == client[c] IN
    CASE s.addr_type = "Domain" -> SeqsOfLen(DomainBytes, s.dlen)
      [] s.addr_type = "V4" -> In(c, V4Addrs, {<<127, 0, 0, 1>>}, {<<127, 0, 0, 1>>})
      [] OTHER -> V6Addrs

\* ReqReadAddr keeping a domain name with its length byte in front
ReqReadAddrPrefixed(c) ==
    LET s == client[c] IN
    /\ s.pc = "req_addr"
    /\ Keep
    /\ IF CanRead(s, AddrLen(s))
       THEN \E a \in AddrChoices(c) :
              Set(c, [s EXCEPT !.addr = IF s.addr_type = "Domain"
                                        THEN <<s.dlen>> \o a ELSE a,
                               !.lastRead = ReadAt(s, AddrLen(s), "request"),
                               !.pc = "req_port"])
       ELSE Set(c, Fail(s, IoErr("UnexpectedEof")))

\* read the address: dlen bytes of a domain name, 4 of IPv4, 16 of IPv6
ReqReadAddr(c) ==
    LET s == client[c] IN
    /\ s.pc = "req_addr"
    /\ Keep
    /\ IF CanRead(s, AddrLen(s))
       THEN \E a \in AddrChoices(c) :
              Set(c, [s EXCEPT !.addr = a, !.lastRead = ReadAt(s, AddrLen(s), "request"),
                               !.pc = "req_port"])
       ELSE Set(c, Fail(s, IoErr("UnexpectedEof")))

\* PortOf with the low byte first
PortOfLittleEndian(b) == b[1] + (b[2] * 256)

\* merge two u8s into a u16
PortOf(b) == (b[1] * 256) + b[2]

\* Dispatch with the Bind arm missing
DispatchBindConnects(s) ==
    IF s.command \in {"Connect", "Bind"} THEN [s EXCEPT !.pc = "resolve"]
    ELSE Fail(s, IoErr("Unsupported"))

\* what handle_client does with the parsed request
Dispatch(s) ==
    IF s.command = "Connect" THEN [s EXCEPT !.pc = "resolve"]
    ELSE Fail(s, IoErr("Unsupported"))

\* read DST.port; from_stream returns the request and handle_client matches
\* on its command
ReqReadPort(c) ==
    LET s == client[c] IN
    /\ s.pc = "req_port"
    /\ Keep
    /\ IF CanRead(s, 2)
       THEN \E b \in In(c, PortBytes, {<<0, 80>>}, {<<0, 80>>}) :
              Set(c, Dispatch([s EXCEPT !.port = PortOf(b), !.lastRead = "request",
                                        !.parsed = TRUE,
                                        !.packet = <<>>, !.dlen = 0]))
       ELSE Set(c, Fail(s, IoErr("UnexpectedEof")))

(* ----------------------------- addr_to_socket -------------------------- *)
\* the eight u16 groups of an IPv6 address, from its 16 bytes
V6Groups(addr) == [x \in 1..8 |-> (addr[(2 * x) - 1] * 256) + addr[2 * x]]

\* SocketAddr::from((ip, port))
Endpoint(ip, port) == [ip |-> ip, port |-> port]

\* the candidates of an IP literal: one endpoint, no lookup
LiteralCandidates(addr_type, addr, port) ==
    IF addr_type = "V6" THEN <<Endpoint(V6Groups(addr), port)>>
    ELSE <<Endpoint(addr, port)>>

\* the candidates of a lookup's answer: each address with the requested port
LookupCandidates(ips, port) == [i \in DOMAIN ips |-> Endpoint(ips[i], port)]

\* what a lookup may answer: one to MaxCand addresses, in some order
LookupAnswers == UNION { SeqsOfLen(ResolvedIps, k) : k \in 1..MaxCand }

\* Resolve with the domain name decoded lossily: every name is looked up
ResolveLossy(c) ==
    LET s == client[c] IN
    /\ s.pc = "resolve"
    /\ Keep
    /\ IF s.addr_type = "Domain"
       THEN Set(c, [s EXCEPT !.dns = @ + 1, !.pc = "dns"])
       ELSE Set(c, [s EXCEPT
                      !.sock_addr = LiteralCandidates(s.addr_type, s.addr, s.port),
                      !.idx = 1, !.pc = "connect"])

\* addr_to_socket up to its await: literals are converted, a domain name is
\* decoded and handed to the resolver
Resolve(c) ==
    LET s == client[c] IN
    /\ s.pc = "resolve"
    /\ Keep
    /\ IF s.addr_type = "Domain"
       THEN IF ValidUtf8(s.addr)
            THEN Set(c, [s EXCEPT !.dns = @ + 1, !.pc = "dns"])
            ELSE Set(c, Fail(s, IoErr("InvalidInput")))
       ELSE Set(c, [s EXCEPT
                      !.sock_addr = LiteralCandidates(s.addr_type, s.addr, s.port),
                      !.idx = 1, !.pc = "connect"])

\* resolver.lookup_ip(..).await answers or fails
DnsLookup(c) ==
    LET s == client[c] IN
    /\ s.pc = "dns"
    /\ Keep
    /\ \/ \E ips \in In(c, LookupAnswers, {<<<<10, 0, 0, 2>>>>}, {<<<<10, 0, 0, 2>>>>}) :
            Set(c, [s EXCEPT !.sock_addr = LookupCandidates(ips, s.port),
                             !.idx = 1, !.pc = "connect"])
       \/ Set(c, Fail(s, IoErr("ResolveError")))

(* ---------------------- SOCKClient::handle_client ---------------------- *)
\* TimeoutError as the internal timeout code
TimeoutErrorInternal == SocksErr(Timeout)

\* the error handle_client returns when the timeout elapses first
TimeoutError == SocksErr(ConnectionRefused)

\* TcpStream::connect(&sock_addr[..]) tries the candidates in order: the
\* candidate at idx accepts, or refuses and the next one is tried; the error
\* of the last one is the connect's error
ConnectAttempt(c) ==
    LET s == client[c] IN
    /\ s.pc = "connect"
    /\ Keep
    /\ \/ Set(c, [s EXCEPT !.opened = @ + 1, !.target = "open",
                           !.pc = "reply"])
       \/ IF s.idx < Len(s.sock_addr)
          THEN Set(c, [s EXCEPT !.idx = @ + 1])
          ELSE Set(c, Fail(s, IoErr("ConnectionRefused")))

\* ConnectTimeout without a timer: the connect is awaited as long as it takes
ConnectTimeoutNever(c) ==
    /\ client[c].pc = "connect"
    /\ FALSE
    /\ UNCHANGED vars

\* timeout(self.timeout, ..) elapses: the connect in flight is dropped
ConnectTimeout(c) ==
    LET s == client[c] IN
    /\ s.pc = "connect"
    /\ Keep
    /\ Set(c, Fail([s EXCEPT !.timedOut = TRUE], TimeoutError))

\* SendSuccess starting the relay without writing the reply
SendSuccessSkipped(c) ==
    LET s == client[c] IN
    /\ s.pc = "reply"
    /\ Keep
    /\ Set(c, [DropRequest(s) EXCEPT !.c2t = "run", !.t2c = "run",
                                     !.pc = "relay"])

\* SocksReply::new(ResponseCode::Success).send(&mut self.stream).await?
SendSuccess(c) ==
    LET s == client[c] IN
    /\ s.pc = "reply"
    /\ Keep
    /\ IF CanWrite(s)
       THEN Set(c, [DropRequest(s) EXCEPT
                      !.cout = @ \o SocksReply(Success),
                      !.replies = Append(@, Success),
                      !.c2t = "run", !.t2c = "run", !.pc = "relay"])
       ELSE Set(c, Fail(s, IoErr("BrokenPipe")))

(* ------------- tokio::io::copy_bidirectional(stream, target) ----------- *)
\* handle_client returns Ok: init returns Ok(()), the task ends and drops
\* both streams
Finish(s) ==
    [s EXCEPT !.pc = "done", !.c2t = "idle", !.t2c = "idle",
              !.target = IF @ = "open" THEN "closed" ELSE @]

\* RelayEnds without the NotConnected arm: every relay error is returned
RelayEndsAllErrors(s, k) == Fail([s EXCEPT !.relayEnd = k], IoErr(k))

\* what handle_client makes of the relay ending with an I/O error of kind k
RelayEnds(s, k) ==
    LET e == [s EXCEPT !.relayEnd = k] IN
    IF k = "NotConnected" THEN Finish(e) ELSE Fail(e, IoErr(k))

\* RelayClientData with the bytes reaching the target in reverse order
RelayClientDataReordered(c) ==
    LET s == client[c] IN
    /\ s.pc = "relay"
    /\ s.c2t = "run"
    /\ s.peer = "open"
    /\ Len(s.tin) + Len(s.fromTarget) < In(c, MaxRelay, 1, 1)
    /\ Keep
    /\ \E b \in In(c, RelayBytes, {1}, {1}) :
         Set(c, [s EXCEPT !.cin = Append(@, b), !.tin = <<b>> \o @,
                          !.lastRead = "relay"])

\* a byte read from the client is written to the target
RelayClientData(c) ==
    LET s == client[c] IN
    /\ s.pc = "relay"
    /\ s.c2t = "run"
    /\ s.peer = "open"
    /\ Len(s.tin) + Len(s.fromTarget) < In(c, MaxRelay, 1, 1)
    /\ Keep
    /\ \E b \in In(c, RelayBytes, {1}, {1}) :
         Set(c, [s EXCEPT !.cin = Append(@, b), !.tin = Append(@, b),
                          !.lastRead = "relay"])

\* the client's direction ends: end of stream (the target's write half is
\* shut down and the other direction goes on) or a read error
RelayClientEnd(c) ==
    LET s == client[c] IN
    /\ s.pc = "relay"
    /\ s.c2t = "run"
    /\ s.peer # "open"
    /\ Keep
    /\ IF s.peer = "eof"
       THEN Set(c, [s EXCEPT !.c2t = "done"])
       ELSE Set(c, RelayEnds(s, "ConnectionReset"))

\* a byte read from the target is written to the client
RelayTargetData(c) ==
    LET s == client[c] IN
    /\ s.pc = "relay"
    /\ s.t2c = "run"
    /\ Len(s.tin) + Len(s.fromTarget) < In(c, MaxRelay, 1, 1)
    /\ Keep
    /\ IF CanWrite(s)
       THEN \E b \in In(c, RelayBytes, {1}, {1}) :
              Set(c, [s EXCEPT !.cout = Append(@, b),
                               !.fromTarget = Append(@, b)])
       ELSE Set(c, RelayEnds(s, "BrokenPipe"))

\* the target's direction ends: the client stream is shut down
RelayTargetEof(c) ==
    LET s == client[c] IN
    /\ s.pc = "relay"
    /\ s.t2c = "run"
    /\ Keep
    /\ IF CanShutdown(s)
       THEN Set(c, [s EXCEPT !.shut = TRUE, !.t2c = "done"])
       ELSE Set(c, RelayEnds(s, "NotConnected"))

\* a read from or a write to the target fails
RelayTargetError(c) ==
    LET s == client[c] IN
    /\ s.pc = "relay"
    /\ Keep
    /\ \E k \in {"ConnectionReset", "NotConnected"} : Set(c, RelayEnds(s, k))

\* both directions are done: copy_bidirectional returns Ok
RelayFinish(c) ==
    LET s == client[c] IN
    /\ s.pc = "relay"
    /\ s.c2t = "done"
    /\ s.t2c = "done"
    /\ Keep
    /\ Set(c, Finish(s))

(* ------------------- Merino::serve, the Err(error) arm ----------------- *)
\* ServeErrReply with the send's error returned with `?`: the task ends
\* without the shutdown
ServeErrReplyPropagates(c) ==
    LET s == client[c]
        code == ResponseCodeFrom(s.error) IN
    /\ s.pc = "err"
    /\ Keep
    /\ IF CanWrite(s)
       THEN Set(c, [s EXCEPT !.cout = @ \o SocksReply(code),
                             !.replies = Append(@, code),
                             !.pc = "err_shutdown"])
       ELSE Set(c, Finish(s))

\* SocksReply::new(error.into()).send(&mut client.stream): a failure is logged
ServeErrReply(c) ==
    LET s == client[c]
        code == ResponseCodeFrom(s.error) IN
    /\ s.pc = "err"
    /\ Keep
    /\ IF CanWrite(s)
       THEN Set(c, [s EXCEPT !.cout = @ \o SocksReply(code),
                             !.replies = Append(@, code),
                             !.pc = "err_shutdown"])
       ELSE Set(c, [s EXCEPT !.pc = "err_shutdown"])

\* ServeErrShutdown with the handler's error returned out of the accept loop
ServeErrShutdownStops(c) ==
    LET s == client[c] IN
    /\ s.pc = "err_shutdown"
    /\ listener' = "stopped"
    /\ UNCHANGED <<pending, auth_methods, users, accepted, inputs>>
    /\ IF CanShutdown(s)
       THEN Set(c, Finish([s EXCEPT !.shut = TRUE]))
       ELSE Set(c, Finish(s))

\* client.shutdown(): a failure is logged; the task ends
ServeErrShutdown(c) ==
    LET s == client[c] IN
    /\ s.pc = "err_shutdown"
    /\ Keep
    /\ IF CanShutdown(s)
       THEN Set(c, Finish([s EXCEPT !.shut = TRUE]))
       ELSE Set(c, Finish(s))

(* ------------------------------ the peer ------------------------------- *)
\* the client stops sending (closes its write half)
ClientEof(c) ==
    LET s == client[c] IN
    /\ s.pc \notin {"idle", "done"}
    /\ s.peer = "open"
    /\ Keep
    /\ Set(c, [s EXCEPT !.peer = "eof"])

\* the connection to the client is reset
ClientReset(c) ==
    LET s == client[c] IN
    /\ s.pc \notin {"idle", "done"}
    /\ s.peer # "reset"
    /\ Keep
    /\ Set(c, [s EXCEPT !.peer = "reset"])

Next ==
    \E c \in Conns :
        \/ Accept(c)
        \/ AcceptError(c)
        \/ InitReadHeader(c)
        \/ InitShutdown(c)
        \/ GetMethod(c)
        \/ AuthSelect(c)
        \/ AuthNoMethodsShutdown(c)
        \/ AuthReadHeader(c)
        \/ AuthReadUsername(c)
        \/ AuthReadPassLen(c)
        \/ AuthReadPassword(c)
        \/ AuthVerdict(c)
        \/ AuthDeniedShutdown(c)
        \/ ReqReadHeader(c)
        \/ ReqShutdown(c)
        \/ ReqReadDomainLen(c)
        \/ ReqReadAddr(c)
        \/ ReqReadPort(c)
        \/ Resolve(c)
        \/ DnsLookup(c)
        \/ ConnectAttempt(c)
        \/ ConnectTimeout(c)
        \/ SendSuccess(c)
        \/ RelayClientData(c)
        \/ RelayClientEnd(c)
        \/ RelayTargetData(c)
        \/ RelayTargetEof(c)
        \/ RelayTargetError(c)
        \/ RelayFinish(c)
        \/ ServeErrReply(c)
        \/ ServeErrShutdown(c)
        \/ ClientEof(c)
        \/ ClientReset(c)

Spec == Init /\ [][Next]_vars

\* the same server with two connections arriving
SpecMany == InitMany /\ [][Next]_vars

\* one connection, with the timer of tokio::time::timeout firing once it has
\* been armed for self.timeout: a handler does not stay in the connect forever
SpecFair ==
    /\ InitFew
    /\ [][Next]_vars
    /\ \A c \in Conns : WF_vars(ConnectTimeout(c))

(* ------------------------------ properties ----------------------------- *)
\* the bytes the handshake puts on the client stream before any reply frame
HandshakeLen(s) == IF s.auth = "none" THEN 2 ELSE 4

C2_NoRequestReadAfterDenial ==
    \A c \in Conns : client[c].auth = "denied" => ~client[c].reqEntered

\* C3: a version-5 greeting that offers both no-auth and username/password, to
\* a server configured with both, is answered [5, 2], in whatever order and
\* however often the client listed the methods.
C3_UserPassPreferred ==
    \A c \in Conns :
        LET s == client[c] IN
        ( /\ s.selected # -1
          /\ {NoAuth, UserPass} \subseteq s.offered
          /\ {NoAuth, UserPass} \subseteq Range(auth_methods) )
        => /\ s.selected = UserPass
           /\ SubSeq(s.cout, 1, 2) = <<SOCKS_VERSION, UserPass>>

\* C3 witness: no-auth listed twice and first, username/password last
C3_Witness ==
    \E c \in Conns :
        /\ client[c].methods = <<NoAuth, NoAuth, UserPass>>
        /\ client[c].selected = UserPass

\* the greeting of s is complete, has version 5 and offers no configured method
NoCommonMethod(s) ==
    /\ s.pc \notin {"idle", "init", "methods"}
    /\ s.socks_version = SOCKS_VERSION
    /\ s.left = 0
    /\ s.offered \cap Range(auth_methods) = {}

\* C4: after a version-5 greeting with no acceptable method (an empty list
\* included) the only bytes ever written are [5, 0xFF], written unless the
\* connection was reset first; the stream is then shut down; no byte is read
\* after the method list, no request is read, nothing is resolved and no
\* outbound connection is opened.
C4_NoAcceptableMethods ==
    \A c \in Conns :
        LET s == client[c] IN
        NoCommonMethod(s) =>
           /\ s.cout \in {<<>>, <<SOCKS_VERSION, NoMethods>>}
           /\ s.peer # "reset" => s.cout = <<SOCKS_VERSION, NoMethods>>
           /\ (s.pc # "nometh_shutdown" /\ s.peer # "reset") => s.shut
           /\ s.lastRead \in {"greeting", "method"}
           /\ ~s.reqEntered
           /\ s.dns = 0 /\ s.opened = 0 /\ s.target = "none"

\* C4 witness: a greeting with nmethods = 0 answered [5, 0xFF] and closed
C4_Witness ==
    \E c \in Conns :
        LET s == client[c] IN
        /\ s.pc = "done" /\ s.socks_version = SOCKS_VERSION
        /\ s.auth_nmethods = 0 /\ s.offered = {}
        /\ s.cout = <<SOCKS_VERSION, NoMethods>> /\ s.shut

\* C5 (as claimed): the reply to a well-formed Bind or UdpAssociate request
\* carries CommandNotSupported.
C5_BindReplyCommandNotSupported ==
    \A c \in Conns :
        LET s == client[c] IN
        (s.parsed /\ s.command \in {"Bind", "UdpAssosiate"} /\ s.replies # <<>>)
        => s.replies = <<CommandNotSupported>>

\* C6: on a connection whose request command is Bind or UdpAssociate nothing
\* is resolved, no outbound connection is opened, no success reply is sent
\* and no byte is relayed.
C6_BindNeverRelays ==
    \A c \in Conns :
        LET s == client[c] IN
        s.command \in {"Bind", "UdpAssosiate"} =>
           /\ s.pc \notin {"resolve", "dns", "connect", "reply", "relay"}
           /\ s.dns = 0 /\ s.opened = 0 /\ s.target = "none"
           /\ Success \notin Range(s.replies)
           /\ s.tin = <<>> /\ s.fromTarget = <<>>

\* C6 witness: a fully parsed Bind request whose connection has ended
C6_Witness ==
    \E c \in Conns :
        client[c].parsed /\ client[c].command = "Bind" /\ client[c].pc = "done"

\* C7: the bytes relayed from the target follow the 10-byte success reply on
\* the client stream, which follows the handshake; and a success reply is
\* written only once the outbound connect has succeeded.
C7_ReplyBeforeRelay ==
    \A c \in Conns :
        LET s == client[c]
            k == HandshakeLen(s) IN
        /\ s.fromTarget # <<>> =>
              /\ SubSeq(s.cout, k + 1, k + 10) = SocksReply(Success)
              /\ SubSeq(s.cout, k + 11, k + 10 + Len(s.fromTarget)) = s.fromTarget
        /\ s.pc = "relay" => s.replies = <<Success>>
        /\ Success \in Range(s.replies) => s.opened = 1 /\ s.target # "none"

\* C7 witness: two bytes of the target have reached the client
C7_Witness ==
    \E c \in Conns : Len(client[c].fromTarget) = 2

\* C8 (as claimed): when the outbound connect is refused, the reply carries
\* ConnectionRefused.
C8_RefusedReplyConnectionRefused ==
    \A c \in Conns :
        LET s == client[c] IN
        (s.error = IoErr("ConnectionRefused") /\ s.replies # <<>>)
        => s.replies = <<ConnectionRefused>>

\* C9: when the timeout elapses before the connect completes, no target
\* stream exists, no relay starts, the only reply ever written is the one
\* carrying ConnectionRefused (never the internal timeout code), and it is
\* written unless the client stream can no longer be written to.
C9_TimeoutRepliesConnectionRefused ==
    \A c \in Conns :
        LET s == client[c] IN
        s.timedOut =>
           /\ s.target = "none" /\ s.opened = 0
           /\ s.tin = <<>> /\ s.fromTarget = <<>>
           /\ s.pc \in {"err", "err_shutdown", "done"}
           /\ s.replies \in {<<>>, <<ConnectionRefused>>}
           /\ (s.pc # "err" /\ s.replies = <<>>) => (s.shut \/ s.peer = "reset")

\* C9 witness: a timed-out connect answered with ConnectionRefused
C9_Witness ==
    \E c \in Conns :
        LET s == client[c] IN
        s.timedOut /\ s.pc = "done" /\ s.replies = <<ConnectionRefused>>

\* C10 (as claimed): when the lookup of a domain name fails, the reply
\* carries HostUnreachable or NetworkUnreachable.
C10_LookupFailureUnreachable ==
    \A c \in Conns :
        LET s == client[c] IN
        (s.error = IoErr("ResolveError") /\ s.replies # <<>>)
        => s.replies[1] \in {HostUnreachable, NetworkUnreachable}

\* C11: a request whose address-type byte is none of 1, 3, 4 is answered with
\* a reply frame carrying AddrTypeNotSupported (0x08), written to the client
\* stream before that stream is shut down: once the error arm has made its
\* reply attempt on a connection the client did not reset, the frame is there.
C11_AddrTypeReplyDelivered ==
    \A c \in Conns :
        LET s == client[c] IN
        (/\ s.error = SocksErr(AddrTypeNotSupported)
         /\ s.pc \in {"err_shutdown", "done"}
         /\ s.peer = "open")
        => /\ s.replies = <<AddrTypeNotSupported>>
           /\ SubSeq(s.cout, Len(s.cout) - 9, Len(s.cout)) = SocksReply(AddrTypeNotSupported)

\* C12: a request whose version byte is not 5, or a client stream that ends
\* before the whole request frame is read, aborts the connection without a
\* reply: no reply frame is written to the client and no target is opened.
C12_BadRequestNoReply ==
    \A c \in Conns :
        LET s == client[c] IN
        (s.reqEntered /\ (\/ s.req_version \notin {0, SOCKS_VERSION}
                          \/ (~s.parsed /\ s.error = IoErr("UnexpectedEof"))))
        => /\ s.replies = <<>>
           /\ Len(s.cout) = HandshakeLen(s)
           /\ s.opened = 0

\* C13: at most one reply frame is written per connection; after the success
\* reply no further frame follows, however the relay ends.
C13_AtMostOneReply ==
    \A c \in Conns :
        LET s == client[c] IN
        /\ Len(s.replies) <= 1
        /\ (s.replies # <<>> /\ s.replies[1] = Success) =>
              Len(s.cout) = HandshakeLen(s) + 10 + Len(s.fromTarget)

\* the bytes of the method selection and of the subnegotiation status that
\* are on the client stream
HandshakeBytes(s) == IF s.selected = -1 THEN 0 ELSE HandshakeLen(s)

\* the 10 bytes of a reply frame, written out
ReplyFrame(code) == <<5, code, 0, 1, 0, 0, 0, 0, 0, 0>>

\* C14: an accept error that leaves the listener usable (a connection aborted
\* while queued) does not end the accept loop: after it the loop still
\* listens, and a connection that is still to arrive can be accepted.
C14_AcceptErrorSurvived ==
    accepted = "ConnectionAborted" =>
        /\ listener = "listening"
        /\ \A c \in pending : ENABLED Accept(c)

\* a step of connection c's handler task
HandlerStep(c) ==
    \/ InitReadHeader(c) \/ InitShutdown(c) \/ GetMethod(c) \/ AuthSelect(c)
    \/ AuthNoMethodsShutdown(c) \/ AuthReadHeader(c) \/ AuthReadUsername(c)
    \/ AuthReadPassLen(c) \/ AuthReadPassword(c) \/ AuthVerdict(c)
    \/ AuthDeniedShutdown(c) \/ ReqReadHeader(c) \/ ReqShutdown(c)
    \/ ReqReadDomainLen(c) \/ ReqReadAddr(c) \/ ReqReadPort(c) \/ Resolve(c)
    \/ DnsLookup(c) \/ ConnectAttempt(c) \/ ConnectTimeout(c) \/ SendSuccess(c)
    \/ RelayClientData(c) \/ RelayClientEnd(c) \/ RelayTargetData(c)
    \/ RelayTargetEof(c) \/ RelayTargetError(c) \/ RelayFinish(c)
    \/ ServeErrReply(c) \/ ServeErrShutdown(c)

\* C15: the accept loop does nothing of a connection's work itself: whatever
\* stage the other handlers are at, while the loop listens every connection
\* still to arrive can be accepted, and every handler that has not ended has
\* a step it can take, so a newly spawned handler can run to its end.
C15_AcceptNeverBlocked ==
    \A c \in Conns :
        /\ (listener = "listening" /\ c \in pending) => ENABLED Accept(c)
        /\ (client[c].pc \notin {"idle", "done"}) => ENABLED HandlerStep(c)

\* C15 witness: one handler waits for the username of a client that is
\* still connected, and the other connection was served to its end
C15_Witness ==
    /\ client["c1"].pc = "up_user" /\ client["c1"].peer = "open"
    /\ client["c2"].pc = "done" /\ client["c2"].error = NoErr
    /\ client["c2"].replies = <<Success>>

\* C16: an error in one handler stays in that connection's task: every step
\* changes at most one connection's record, a step of a handler leaves the
\* accept loop as it is, and a step taken while a handler is in the error arm
\* changes nothing but that handler's record.
C16_ErrorsConfined ==
    [][\A c \in Conns :
        LET s == client[c]
            n == client'[c] IN
        /\ n # s => \A d \in Conns \ {c} : client'[d] = client[d]
        /\ (n # s /\ s.pc # "idle") =>
              UNCHANGED <<listener, pending, accepted, auth_methods, users>>
        /\ (n.pc = "err" /\ s.pc # "err") =>
              /\ n.error # NoErr
              /\ UNCHANGED <<listener, pending, accepted>>]_vars

\* C16 witness: one handler ended with an error, the loop still listens, and
\* the other connection was served: handshake, success reply, relayed bytes
C16_Witness ==
    /\ client["c1"].pc = "done" /\ client["c1"].error # NoErr
    /\ listener = "listening"
    /\ client["c2"].pc = "done" /\ client["c2"].error = NoErr
    /\ client["c2"].fromTarget # <<>>
    /\ client["c2"].cout = <<5, 0>> \o ReplyFrame(Success) \o client["c2"].fromTarget

\* C17: once a greeting with a version other than 5 is read, the handler
\* reads no method byte and no request, writes nothing to the client, makes
\* no lookup and opens no target; it only shuts the client stream down, and
\* when it has ended the stream is shut down or the connection was reset.
C17_BadGreetingVersionEnds ==
    \A c \in Conns :
        LET s == client[c] IN
        (s.lastRead # "none" /\ s.socks_version # SOCKS_VERSION)
        => /\ s.lastRead = "greeting"
           /\ s.offered = {} /\ s.selected = -1
           /\ s.cout = <<>> /\ s.replies = <<>>
           /\ ~s.reqEntered
           /\ s.dns = 0 /\ s.opened = 0 /\ s.target = "none"
           /\ s.pc \in {"init_shutdown", "err", "err_shutdown", "done"}
           /\ s.pc = "done" => (s.shut \/ s.peer = "reset")

\* C17 witness: a version 4 greeting ended the handler with the stream shut
\* down and nothing written
C17_Witness ==
    \E c \in Conns :
        LET s == client[c] IN
        /\ s.socks_version = 4 /\ s.lastRead = "greeting"
        /\ s.pc = "done" /\ s.shut /\ s.cout = <<>> /\ s.error = NoErr

\* C18: every reply frame on the client stream is exactly the 10 bytes
\* [5, code, 0, 1, 0,0,0,0, 0,0]: the stream is the handshake bytes, then
\* the first frame, then the relayed target bytes, then a second frame if
\* there is one; and SocksReply builds that frame for every reply code.
C18_ReplyFrameLayout ==
    /\ \A code \in (0..8) \cup {Timeout} : SocksReply(code) = ReplyFrame(code)
    /\ \A c \in Conns :
        LET s == client[c]
            h == HandshakeBytes(s)
            n == Len(s.replies)
            len == Len(s.cout) IN
        /\ n <= 2
        /\ len = h + (10 * n) + Len(s.fromTarget)
        /\ n >= 1 => SubSeq(s.cout, h + 1, h + 10) = ReplyFrame(s.replies[1])
        /\ n = 2 => SubSeq(s.cout, len - 9, len) = ReplyFrame(s.replies[2])
        /\ n = 2 => SubSeq(s.cout, h + 11, len - 10) = s.fromTarget

\* C18 witness: a success frame, relayed bytes and an error frame are on the
\* client stream
C18_Witness ==
    \E c \in Conns :
        LET s == client[c] IN
        s.replies = <<Success, Failure>> /\ s.fromTarget # <<>>

\* C19: the code byte of every reply frame on the client stream is one of
\* 0x00..0x08; the internal timeout code 0x99 is never written.
C19_ReplyCodeInRange ==
    \A c \in Conns :
        LET s == client[c]
            h == HandshakeBytes(s)
            len == Len(s.cout) IN
        /\ \A i \in DOMAIN s.replies : s.replies[i] \in 0..8
        /\ Len(s.replies) >= 1 => s.cout[h + 2] \in 0..8
        /\ Len(s.replies) = 2 => s.cout[len - 8] \in 0..8
        /\ Timeout \notin Range(s.replies)

\* C19 witness: the connect attempt timed out and the error frame written
\* for it carries 0x05
C19_Witness ==
    \E c \in Conns :
        LET s == client[c] IN
        /\ s.timedOut /\ s.pc = "done"
        /\ s.cout = <<5, 0, 5, 5, 0, 1, 0, 0, 0, 0, 0, 0>>

\* C20: a CONNECT whose domain-name bytes are not valid UTF-8 fails in
\* addr_to_socket before the resolver is called: from the state where the
\* name is about to be resolved the handler goes to the error arm with
\* InvalidInput without a lookup, and from then on no lookup is made and no
\* target is opened.
C20_InvalidDomainNoLookup ==
    [][\A c \in Conns :
        LET s == client[c]
            n == client'[c] IN
        (\/ (s.pc = "resolve" /\ s.addr_type = "Domain" /\ ~ValidUtf8(s.addr))
         \/ s.error = IoErr("InvalidInput"))
        => /\ s.dns = 0 /\ s.opened = 0
           /\ n.dns = 0 /\ n.opened = 0 /\ n.target = "none"
           /\ n.pc \in {"resolve", "err", "err_shutdown", "done"}
           /\ n.pc # "resolve" => n.error = IoErr("InvalidInput")]_vars

\* C20 witness: a name with the byte 0xFF ended in the error arm with no
\* lookup made and no target opened
C20_Witness ==
    \E c \in Conns :
        LET s == client[c] IN
        /\ s.error = IoErr("InvalidInput") /\ s.pc = "done"
        /\ s.dns = 0 /\ s.opened = 0

\* C21: a CONNECT whose domain-name bytes are not valid text fails in the
\* AddrTypeNotSupported class: the reply written for it carries 0x08.
C21_InvalidDomainReplyAddrType ==
    \A c \in Conns :
        LET s == client[c] IN
        (s.error = IoErr("InvalidInput") /\ s.pc \in {"err_shutdown", "done"}
            /\ s.req_version = SOCKS_VERSION /\ s.peer = "open")
        => s.replies = <<AddrTypeNotSupported>>

\* C22: the candidates are tried one at a time in the order resolution gave
\* them and the first that connects ends the attempts, so at most one target
\* is opened per request; when every candidate has failed the reply written
\* carries ConnectionRefused (0x05).
C22_CandidatesInOrderThenRefused ==
    \A c \in Conns :
        LET s == client[c] IN
        /\ s.opened <= 1
        /\ s.pc = "connect" => s.idx \in 1..Len(s.sock_addr)
        /\ s.pc = "reply" => (s.opened = 1 /\ s.target = "open")
        /\ (s.error = IoErr("ConnectionRefused") /\ s.pc \in {"err_shutdown", "done"}
              /\ s.req_version = SOCKS_VERSION /\ s.auth # "denied" /\ s.peer = "open")
           => s.replies = <<ConnectionRefused>>

\* C23: a request with address type IPv4, address bytes [a,b,c,d] and port
\* bytes [hi,lo] resolves to exactly one candidate, a.b.c.d with port
\* 256*hi+lo (so [0x23,0x28] is 9000 and [0,0x50] is 80), and the resolver is
\* not called.
C23_V4OneCandidateBigEndian ==
    /\ \A hi, lo \in {0, 35, 40, 80, 255} : PortOf(<<hi, lo>>) = (256 * hi) + lo
    /\ \A c \in Conns :
        LET s == client[c] IN
        (s.addr_type = "V4" /\ s.pc \in {"resolve", "connect", "reply"})
        => /\ Len(s.addr) = 4
           /\ s.port \in {9000, 80}
           /\ s.dns = 0
           /\ s.pc # "resolve" =>
                 /\ s.sock_addr = <<[ip |-> s.addr, port |-> s.port]>>
                 /\ s.idx = 1

\* C23 witness: the request for 127.0.0.1 with port bytes [0x23, 0x28] has
\* the one candidate 127.0.0.1:9000 and no lookup was made
C23_Witness ==
    \E c \in Conns :
        LET s == client[c] IN
        /\ s.pc = "connect" /\ s.addr_type = "V4" /\ s.dns = 0
        /\ s.sock_addr = <<[ip |-> <<127, 0, 0, 1>>, port |-> 9000]>>

\* C24: on a server with no-auth configured, a client whose greeting is
\* [5, 1, 0] is answered [5, 0]; once its CONNECT is accepted by the target
\* it receives exactly [5,0,0,1,0,0,0,0,0,0], and from then on the bytes the
\* relay read from the client are the bytes written to the target, in order,
\* and the bytes read from the target follow the reply on the client stream,
\* in order.
C24_NoAuthConnectRelaysIdentically ==
    \A c \in Conns :
        LET s == client[c]
            n == Len(s.fromTarget) IN
        (/\ s.socks_version = SOCKS_VERSION /\ s.auth_nmethods = 1
         /\ s.offered = {NoAuth} /\ Contains(auth_methods, NoAuth))
        => /\ s.selected # -1 =>
                 /\ s.selected = NoAuth /\ s.auth = "none"
                 /\ SubSeq(s.cout, 1, 2) = <<5, 0>>
           /\ (s.pc = "relay" \/ (s.replies # <<>> /\ s.replies[1] = Success)) =>
                 /\ SubSeq(s.cout, 1, 12 + n) =
                        <<5, 0, 5, 0, 0, 1, 0, 0, 0, 0, 0, 0>> \o s.fromTarget
                 /\ s.tin = s.cin
                 /\ s.opened = 1
                 /\ s.pc = "relay" => Len(s.cout) = 12 + n

\* C24 witness: after the handshake and the success reply one byte went each
\* way and the relay ended normally
C24_Witness ==
    \E c \in Conns :
        LET s == client[c] IN
        /\ s.offered = {NoAuth} /\ s.auth_nmethods = 1
        /\ s.pc = "done" /\ s.error = NoErr
        /\ s.cin = <<2>> /\ s.tin = <<2>> /\ s.fromTarget = <<1>>
        /\ s.cout = <<5, 0, 5, 0, 0, 1, 0, 0, 0, 0, 0, 0, 1>>

\* C25: the stages are hard preconditions of one another: a lookup or an
\* outbound connect is attempted only on a connection whose greeting had
\* version 5, whose negotiation selected no-auth or whose subnegotiation
\* succeeded, and whose request had version 5 and command Connect.
C25_StagesArePreconditions ==
    \A c \in Conns :
        LET s == client[c] IN
        (s.pc \in {"resolve", "dns", "connect"} \/ s.dns > 0 \/ s.opened > 0)
        => /\ s.socks_version = SOCKS_VERSION
           /\ s.selected = NoAuth \/ s.auth = "granted"
           /\ s.req_version = SOCKS_VERSION
           /\ s.command = "Connect"

\* C30: a client whose subnegotiation was answered with the failure status is
\* never served: no target is opened for it, no success reply is written and
\* no byte is relayed either way.
C30_DeniedNeverServed ==
    \A c \in Conns :
        LET s == client[c] IN
        s.auth = "denied"
        => /\ s.opened = 0 /\ s.target = "none"
           /\ Success \notin Range(s.replies)
           /\ s.cin = <<>> /\ s.tin = <<>> /\ s.fromTarget = <<>>

\* C26: every Err of init ends the same way in the task: the step out of the
\* error arm's entry is one reply attempt (the frame of the error's code is
\* appended when the stream can be written to, nothing otherwise) and leads
\* to the shutdown whether or not the write succeeded; the step after it is
\* the shutdown attempt and ends the task whether or not it succeeded; no
\* second reply attempt follows, and the accept loop is left as it is.
C26_ErrorArmReplyThenShutdown ==
    [][\A c \in Conns :
        LET s == client[c]
            n == client'[c] IN
        /\ (s.pc = "err" /\ n.pc # "err") =>
              /\ s.error # NoErr
              /\ n.pc = "err_shutdown"
              /\ n.cout = IF CanWrite(s)
                          THEN s.cout \o ReplyFrame(ResponseCodeFrom(s.error))
                          ELSE s.cout
              /\ n.shut = s.shut
              /\ listener' = listener
        /\ (s.pc = "err_shutdown" /\ n.pc # "err_shutdown") =>
              /\ n.pc = "done"
              /\ n.cout = s.cout
              /\ n.shut = (s.shut \/ CanShutdown(s))
              /\ listener' = listener
        /\ (s.pc \in {"err_shutdown", "done"}) => n.pc # "err"
        /\ (s.pc # "err" /\ n.pc = "err") => n.error # NoErr]_vars

\* C26 witness: the reply of the error arm could not be written, and the
\* client stream was shut down all the same
C26_Witness ==
    \E c \in Conns :
        LET s == client[c] IN
        /\ s.pc = "done" /\ s.error = IoErr("Unsupported")
        /\ s.replies = <<>> /\ s.shut /\ s.peer # "reset"

\* C27: the outbound connect always ends: a handler that has started the
\* connect leaves it, and it leaves it either with the target connected, or
\* with a connect error and no target, or, when the timeout elapsed, with the
\* connect dropped and the ConnectionRefused error.
C27_ConnectTerminates ==
    /\ \A c \in Conns :
          (client[c].pc = "connect") ~> (client[c].pc \in {"reply", "err"})
    /\ [][\A c \in Conns :
            LET s == client[c]
                n == client'[c] IN
            (s.pc = "connect" /\ n.pc # "connect") =>
                \/ n.pc = "reply" /\ n.target = "open" /\ ~n.timedOut
                \/ /\ n.pc = "err" /\ n.target = "none"
                   /\ n.error = IF n.timedOut THEN SocksErr(ConnectionRefused)
                                ELSE IoErr("ConnectionRefused")]_vars

\* C27 witness: the timeout elapsed during the connect; the handler is in
\* the error arm with no target
C27_Witness ==
    \E c \in Conns :
        LET s == client[c] IN
        /\ s.pc = "err" /\ s.timedOut /\ s.target = "none"
        /\ s.error = SocksErr(ConnectionRefused)

\* C28: a relay that ends with a NotConnected error counts as a normal end:
\* the handler ends without an error, the error arm is not entered and the
\* success reply stays the only frame on the client stream; a relay that
\* ends with any other I/O error returns that error to the task.
C28_NotConnectedIsNormalEnd ==
    \A c \in Conns :
        LET s == client[c] IN
        /\ s.relayEnd = "NotConnected" =>
              /\ s.pc = "done" /\ s.error = NoErr
              /\ s.replies = <<Success>>
              /\ Len(s.cout) = HandshakeLen(s) + 10 + Len(s.fromTarget)
        /\ s.relayEnd \notin {"none", "NotConnected"} =>
              /\ s.pc \in {"err", "err_shutdown", "done"}
              /\ s.error = IoErr(s.relayEnd)

\* C28 witness: the relay ended with NotConnected while the client was still
\* connected, and the handler ended without an error
C28_Witness ==
    \E c \in Conns :
        LET s == client[c] IN
        /\ s.relayEnd = "NotConnected" /\ s.pc = "done" /\ s.peer = "open"
        /\ s.error = NoErr /\ s.replies = <<Success>>

\* C29, as stated: the address kept for a request has 4 bytes for IPv4, 16
\* for IPv6 and 1 + declared length (the length byte included) for a domain
\* name.
C29_AddrLengthPrefixed ==
    \A c \in Conns :
        LET s == client[c] IN
        s.pc = "req_port" =>
            Len(s.addr) = CASE s.addr_type = "V4" -> 4
                            [] s.addr_type = "V6" -> 16
                            [] OTHER -> 1 + s.dlen

\* C29, amended: the address kept for a request has 4 bytes for IPv4, 16 for
\* IPv6 and exactly the declared length for a domain name: the length byte
\* is not kept, the bytes are those of the name; the lengths of the literals
\* still hold when the request is resolved.
C29_AddrLengthDeclared ==
    \A c \in Conns :
        LET s == client[c] IN
        /\ s.pc = "req_port" =>
              /\ Len(s.addr) = CASE s.addr_type = "V4" -> 4
                                 [] s.addr_type = "V6" -> 16
                                 [] OTHER -> s.dlen
              /\ s.addr_type = "Domain" => \A i \in DOMAIN s.addr : s.addr[i] \in DomainBytes
        /\ s.pc \in {"resolve", "dns", "connect", "reply"} =>
              /\ s.addr_type = "V4" => Len(s.addr) = 4
              /\ s.addr_type = "V6" => Len(s.addr) = 16
              /\ s.addr_type = "Domain" => Len(s.addr) <= MaxDomain

\* C29 witness: a domain name declared with length 1 is kept as one byte
C29_Witness ==
    \E c \in Conns :
        LET s == client[c] IN
        /\ s.pc = "req_port" /\ s.addr_type = "Domain"
        /\ s.dlen = 1 /\ s.addr = <<97>>

\* the positions of a handler whose next step is a read from or a write to
\* the client stream, outside the relay
ClientStreamPcs ==
    {"init", "methods", "up_hdr", "up_user", "up_plen", "up_pass", "up_verdict",
     "req", "req_dlen", "req_addr", "req_port", "reply", "err"}

\* C31: once the handler or the request parser has shut the client stream
\* down, no step of that connection's task reads from or writes to the
\* client stream: a task whose stream is shut down takes no step from a
\* position whose operation is a client-stream read or write.
C31_NothingAfterShutdown ==
    [][\A c \in Conns :
        LET s == client[c]
            n == client'[c] IN
        (s.shut /\ [n EXCEPT !.peer = s.peer] # s) => s.pc \notin ClientStreamPcs]_vars

\* C32: the method byte of every method-selection reply is 0xFF, or it is a
\* method the client offered and the server is configured with, and then it
\* is 0x00 or 0x02; a server configured with username/password only never
\* selects no-auth.
C32_SelectedMethodOfferedAndConfigured ==
    \A c \in Conns :
        LET s == client[c] IN
        /\ s.selected = -1 => (s.cout = <<>> \/ s.pc \in {"err_shutdown", "done"})
        /\ s.selected # -1 =>
              /\ SubSeq(s.cout, 1, 2) = <<5, s.selected>>
              /\ \/ s.selected = 255
                 \/ /\ s.selected \in s.offered
                    /\ Contains(auth_methods, s.selected)
                    /\ s.selected \in {0, 2}
              /\ auth_methods = <<UserPass>> => s.selected # 0

\* C32 witness: a server configured with username/password only answered a
\* client that offered no-auth, and not username/password, with 0xFF
C32_Witness ==
    \E c \in Conns :
        LET s == client[c] IN
        /\ auth_methods = <<UserPass>>
        /\ NoAuth \in s.offered /\ UserPass \notin s.offered
        /\ s.cout = <<5, 255>>

====
